---- MODULE Spec2Model ----
(***************************************************************************)
(* Model of Kernel/LHCbMath/LHCbMath/LHCbMath.h: the comparison functors   *)
(* (Equal_To, Zero, NotZero, Small, LessOrEqual, GreaterOrEqual, NumLess), *)
(* absMin / absMax and round.                                              *)
(*                                                                         *)
(* A floating value is a record [nan, neg, mag]: NaN, or a sign and a      *)
(* magnitude counted in units of 1/One (fixed point), so +0.0 and -0.0 are *)
(* distinct values that compare equal, and every comparison against NaN is *)
(* false, as for the C++ double the templates are instantiated with.       *)
(***************************************************************************)
EXTENDS Integers, Sequences, FiniteSets

VARIABLES op, x, y, eps, v, resB, resV, resI, obj, ctor_a, m_a,
          arr, old, ys, th, writes, oob, dot, first2

\* the state of the sequence helpers: the sequence arr being worked on and its
\* value old at the start, the second sequence ys of dot_fma, each caller's
\* call th[t], the number of writes to each element, whether dot_fma read
\* past the end of ys, and dot_fma's accumulator dot and second iterator first2
seqvars == <<arr, old, ys, th, writes, oob, dot, first2>>

vars == <<op, x, y, eps, v, resB, resV, resI, obj, ctor_a, m_a, seqvars>>

-----------------------------------------------------------------------------
(* Bounds of the model *)

\* largest whole number among the magnitudes the inputs are drawn from
MaxWhole == 2
\* longest std::vector given to the vector specialisations
MaxLen == 2

-----------------------------------------------------------------------------
(* The value domain *)

\* 1/epsilon for the default epsilon = 1.0e-6 of knuth_equal_to_double
EpsInv == 1000000
\* fixed point: 1.0 is One units, so one unit is a tenth of the default epsilon
One == 10 * EpsInv
Half == One \div 2

NaN == [nan |-> TRUE, neg |-> FALSE, mag |-> 0]
Num(n, m) == [nan |-> FALSE, neg |-> n, mag |-> m]

\* the literal 0 of "m_cmp ( v , 0 )", converted to TYPE
ZeroLit == Num(FALSE, 0)

\* magnitudes: every multiple of 1/2 up to MaxWhole + 1/2, one unit (a tiny
\* non-zero value, far below the default epsilon) and 1.0 plus one unit
Mags == {k * Half : k \in 0..(2 * MaxWhole + 1)} \cup {1, One + 1}

Numbers == {Num(n, m) : n \in BOOLEAN, m \in Mags}
Values == {NaN} \cup Numbers

\* the elements the vectors are built from
Elems == {NaN, Num(FALSE, 0), Num(TRUE, 0), Num(FALSE, 1), Num(TRUE, One),
          Num(FALSE, One + 1)}

RECURSIVE SeqsUpTo(_)
SeqsUpTo(n) ==
  IF n = 0 THEN {<<>>}
  ELSE LET shorter == SeqsUpTo(n - 1)
       IN  shorter \cup {Append(s, e) : s \in {t \in shorter : Len(t) = n - 1}, e \in Elems}

Vectors == SeqsUpTo(MaxLen)

\* the signed number of units of a non-NaN value
Val(a) == IF a.neg THEN 0 - a.mag ELSE a.mag

-----------------------------------------------------------------------------
(* The standard-library pieces the header calls, with IEEE semantics *)

less(a, b) == ~a.nan /\ ~b.nan /\ Val(a) < Val(b)
less_equal(a, b) == ~a.nan /\ ~b.nan /\ Val(a) <= Val(b)
greater_equal(a, b) == ~a.nan /\ ~b.nan /\ Val(a) >= Val(b)
equal_to(a, b) == ~a.nan /\ ~b.nan /\ Val(a) = Val(b)

\* std::fabs / std::abs: clears the sign, NaN stays NaN
fabs(a) == IF a.nan THEN a ELSE Num(FALSE, a.mag)
abs(a) == IF a.nan THEN a ELSE Num(FALSE, a.mag)

\* std::min(a, b) is (b < a) ? b : a and std::max(a, b) is (a < b) ? b : a
min(a, b) == IF less(b, a) THEN b ELSE a
max(a, b) == IF less(a, b) THEN b ELSE a

\* operator! on a floating value: true exactly for +0.0 and -0.0
Not(a) == ~a.nan /\ a.mag = 0

-----------------------------------------------------------------------------
(* Approximate equality *)

\* an epsilon is the fraction num/den; the default is 1.0e-6
DefaultEps == [num |-> 1, den |-> EpsInv]
Epsilons == {[num |-> 0, den |-> 1], [num |-> 1, den |-> 2], DefaultEps}

\* max(|a|, |b|, 1) in units
Max3(a, b) ==
  LET m == IF a.mag >= b.mag THEN a.mag ELSE b.mag
  IN  IF m >= One THEN m ELSE One

\* the distance |a - b| in units
Dist(a, b) ==
  IF Val(a) >= Val(b) THEN Val(a) - Val(b) ELSE Val(b) - Val(a)

\* knuth_equal_to_double is only declared in the header; its body follows the
\* documented contract |a-b| <= epsilon * max(|a|,|b|,1). The distance is a
\* whole number of units, so d * den <= num * M is d <= (num * M) \div den.
knuth_equal_to_double(value1, value2, epsilon) ==
  /\ ~value1.nan
  /\ ~value2.nan
  /\ Dist(value1, value2) <= (epsilon.num * Max3(value1, value2)) \div epsilon.den

\* Equal_To with <= written for ==
Equal_To_leq(v1, v2) == less_equal(v1, v2)

\* Equal_To comparing within a tolerance of one half
Equal_To_loose(v1, v2) == knuth_equal_to_double(v1, v2, [num |-> 1, den |-> 2])

\* Equal_To<TYPE>::operator(): std::equal_to<TYPE> cmp ; return cmp ( v1 , v2 )
Equal_To(v1, v2) == equal_to(v1, v2)

-----------------------------------------------------------------------------
(* Zero / NotZero *)

\* Zero<double>::operator(): !v || m_cmp ( v , 0 )
Zero_double(a) == Not(a) \/ Equal_To(a, ZeroLit)

\* Zero<float>::operator(): !v || m_cmp ( v , 0 )
Zero_float(a) == Not(a) \/ Equal_To(a, ZeroLit)

\* NotZero<TYPE>::operator(): !m_zero ( v )
NotZero(a) == ~Zero_double(a)

\* std::find_if over [first, last) of s with the unary predicate p (a function
\* on Values); positions are 1..Len(s) and Len(s) + 1 is end()
RECURSIVE find_if(_, _, _)
find_if(s, first, p) ==
  IF first > Len(s) THEN first
  ELSE IF p[s[first]] THEN first
  ELSE find_if(s, first + 1, p)

\* the member m_nz of Zero< std::vector<TYPE> >, as a predicate
m_nz == [e \in Values |-> NotZero(e)]

\* Zero< std::vector<TYPE> > searching from the second element on
Zero_vector_skip(s) == Len(s) = 0 \/ Len(s) + 1 = find_if(s, 2, m_nz)

\* Zero< std::vector<TYPE> >::operator():
\* v.empty() || ( v.end() == std::find_if ( v.begin() , v.end () , m_nz ) )
Zero_vector(s) == Len(s) = 0 \/ Len(s) + 1 = find_if(s, 1, m_nz)

-----------------------------------------------------------------------------
(* Small *)

\* the constructor storing a without std::abs
Small_ctor_raw(a) == a

\* Small<TYPE>::Small ( a ) : m_a ( std::abs ( a ) )
Small_ctor(a) == abs(a)

\* Small<TYPE>::operator(): std::abs ( a ) <= m_a
Small_call(m, a) == less_equal(abs(a), m)

\* std::not1 ( m_cmp ) for a Small<TYPE> whose stored threshold is m
not1_m_cmp(m) == [e \in Values |-> ~Small_call(m, e)]

\* Small< std::vector<TYPE> >::operator():
\* v.empty() || v.end() == std::find_if ( v.begin() , v.end() , std::not1 ( m_cmp ) )
Small_vector_call(m, s) == Len(s) = 0 \/ Len(s) + 1 = find_if(s, 1, not1_m_cmp(m))

-----------------------------------------------------------------------------
(* Ordering with tolerance *)

\* LessOrEqual with && written for ||
LessOrEqual_and(o1, o2) == less_equal(o1, o2) /\ Equal_To(o1, o2)

\* LessOrEqual<TYPE>::operator(): m_leq ( o1 , o2 ) || m_equal ( o1 , o2 )
LessOrEqual(o1, o2) == less_equal(o1, o2) \/ Equal_To(o1, o2)

\* GreaterOrEqual with && written for ||
GreaterOrEqual_and(o1, o2) == greater_equal(o1, o2) /\ Equal_To(o1, o2)

\* GreaterOrEqual<TYPE>::operator(): m_geq ( o1 , o2 ) || m_equal ( o1 , o2 )
GreaterOrEqual(o1, o2) == greater_equal(o1, o2) \/ Equal_To(o1, o2)

\* NumLess with || written for &&
NumLess_or(o1, o2) == less(o1, o2) \/ ~Equal_To(o1, o2)

\* NumLess<TYPE>::operator(): m_less ( o1 , o2 ) && !m_equal ( o1 , o2 )
NumLess(o1, o2) == less(o1, o2) /\ ~Equal_To(o1, o2)

-----------------------------------------------------------------------------
(* Absolute-value minimum and maximum *)

\* absMin without std::fabs on the first argument
absMin_raw(v1, v2) == min(v1, fabs(v2))

\* std::min ( std::fabs ( v1 ) , std::fabs ( v2 ) )
absMin(v1, v2) == min(fabs(v1), fabs(v2))

\* std::max ( std::fabs ( v1 ) , std::fabs ( v2 ) )
absMax(v1, v2) == max(fabs(v1), fabs(v2))

-----------------------------------------------------------------------------
(* round: boost::numeric::converter with RoundEven, on signed units *)

\* std::floor and std::ceil of n units, in units (\div rounds down)
floor(n) == (n \div One) * One
ceil(n) == 0 - floor(0 - n)

\* rounding with ties going away from zero
RoundEven_away(n) ==
  LET prev == (n \div One) * One
      next == 0 - ((0 - n) \div One) * One
      rt == (n - prev) - (next - n)
  IN  IF rt < 0 THEN prev
      ELSE IF rt > 0 THEN next
      ELSE IF n >= 0 THEN next ELSE prev

\* boost::numeric::RoundEven<S>::nearbyint: prev = floor(s), next = ceil(s),
\* rt = (s - prev) - (next - s); rt < 0 gives prev, rt > 0 gives next, and a
\* tie gives prev when two * floor(prev / two) == prev, else next
RoundEven(n) ==
  LET prev == floor(n)
      next == ceil(n)
      rt == (n - prev) - (next - n)
      is_prev_even == 2 * floor(prev \div 2) = prev
  IN  IF rt < 0 THEN prev
      ELSE IF rt > 0 THEN next
      ELSE IF is_prev_even THEN prev ELSE next

\* the conversion of an integral floating value to long
static_cast_long(n) == n \div One

\* long round ( const double x ): Converter::convert ( x )
round_double(a) == static_cast_long(RoundEven(Val(a)))

\* long round ( const float x ): Converter::convert ( x )
round_float(a) == static_cast_long(RoundEven(Val(a)))

\* the values a float holds as well as a double: 1.0 plus one unit needs more
\* significant bits than a float has
IsFloat(a) == a.nan \/ a.mag <= One \/ a.mag % Half = 0
Floats == {a \in Numbers : IsFloat(a)}

-----------------------------------------------------------------------------
(* frexp10: only declared in the header; the body follows the documented     *)
(* contract x = mantissa * 10^exponent with 0.1 <= |mantissa| < 1            *)

\* 100.0
Hundred == 100 * One

\* the arguments of frexp10: the finite values whose mantissa is a whole
\* number of units, and +-100.0
FrexpInputs ==
  {a \in Numbers : a.mag # One + 1} \cup {Num(n, Hundred) : n \in BOOLEAN}

\* the normalisation taking an exact power of ten for a mantissa of 1.0
RECURSIVE frexp10_norm_gt(_, _)
frexp10_norm_gt(m, e) ==
  IF m > One THEN frexp10_norm_gt(m \div 10, e + 1)
  ELSE IF m < One \div 10 THEN frexp10_norm_gt(m * 10, e - 1)
  ELSE <<m, e>>

\* bring the magnitude m * 10^e into [0.1, 1) by powers of ten
RECURSIVE frexp10_norm(_, _)
frexp10_norm(m, e) ==
  IF m >= One THEN frexp10_norm(m \div 10, e + 1)
  ELSE IF m < One \div 10 THEN frexp10_norm(m * 10, e - 1)
  ELSE <<m, e>>

\* std::pair<double,int> frexp10 ( const double x ): <<mantissa, exponent>>,
\* <<0, 0>> for x == 0
frexp10(a) ==
  IF a.mag = 0 THEN <<ZeroLit, 0>>
  ELSE LET me == frexp10_norm(a.mag, 0)
       IN  <<Num(a.neg, me[1]), me[2]>>

-----------------------------------------------------------------------------
(* The sequence helpers scale, shift, negate and dot_fma. Their elements are *)
(* whole numbers, which a double holds exactly. An iterator is a position    *)
(* 1..Len + 1 of the sequence, Len + 1 being end().                          *)

\* longest sequence given to the sequence helpers
MaxN == 3
\* longest sequence two concurrent callers share
MaxShared == 2

\* <<1 + k, 2 + k, ..., n + k>>
Ramp(n, k) == [i \in 1..n |-> i + k]
\* <<1, -2, 3, ...>>
Alt(n) == [i \in 1..n |-> IF i % 2 = 0 THEN 0 - i ELSE i]

RECURSIVE SeqsOver(_, _)
SeqsOver(S, n) ==
  IF n = 0 THEN {<<>>}
  ELSE LET shorter == SeqsOver(S, n - 1)
       IN  shorter \cup {Append(s, e) : s \in {t \in shorter : Len(t) = n - 1}, e \in S}

\* the sequences the helpers are given
SeqInputs ==
  SeqsOver({0, 0 - 1}, MaxN)
    \cup {Ramp(n, 0) : n \in 0..MaxN}
    \cup {Ramp(n, 3) : n \in 0..MaxN}
    \cup {Alt(n) : n \in 0..MaxN}

\* the factors given to scale and shift (negate takes none)
Factors(o) ==
  IF o = "scale" THEN {2, 0 - 1}
  ELSE IF o = "shift" THEN {1, 0 - 3}
  ELSE {0}

\* what a read past the end of a sequence may yield
Garbage == {0, 7}

Threads == 1..2

\* (*first) *= factor with addition written for multiplication
scale_step_add(e, f) == e + f

\* scale: (*first) *= factor
scale_step(e, f) == e * f

\* (*first) += factor with subtraction written for addition
shift_step_sub(e, f) == e - f

\* shift: (*first) += factor
shift_step(e, f) == e + f

\* negate: (*first) = -(*first)
negate_step(e) == 0 - e

\* the new value of an element holding e under operation o
update(o, e, f) ==
  IF o = "scale" THEN scale_step(e, f)
  ELSE IF o = "shift" THEN shift_step(e, f)
  ELSE negate_step(e)

\* std::fma ( x , y , z ) without the addend
fma_mul(a, b, c) == a * b

\* std::fma ( x , y , z ): x * y + z, exact on whole numbers
fma(a, b, c) == a * b + c

\* a caller that is in no call
IdleT ==
  [op |-> "none", first |-> 1, last |-> 1, lo |-> 1, factor |-> 0, tmp |-> 0,
   pc |-> "idle"]

NoSeq ==
  /\ arr = <<>>
  /\ old = <<>>
  /\ ys = <<>>
  /\ th = [t \in Threads |-> IdleT]
  /\ writes = <<>>
  /\ oob = FALSE
  /\ dot = 0
  /\ first2 = 1

-----------------------------------------------------------------------------
(* The state machine: a caller invokes one operation at a time. op names the *)
(* call whose arguments and result the state holds, "none" between calls.    *)
(* obj is the Small object in scope, built from ctor_a and holding m_a.      *)

NoCall ==
  /\ op = "none"
  /\ x = ZeroLit
  /\ y = ZeroLit
  /\ eps = DefaultEps
  /\ v = <<>>
  /\ resB = FALSE
  /\ resV = ZeroLit
  /\ resI = 0

NoObject ==
  /\ obj = "none"
  /\ ctor_a = ZeroLit
  /\ m_a = ZeroLit

Init == NoCall /\ NoObject /\ NoSeq

KnuthEqual ==
  \E a \in Values, b \in Values, e \in Epsilons :
    /\ op = "none"
    /\ op' = "knuth_equal_to_double"
    /\ x' = a
    /\ y' = b
    /\ eps' = e
    /\ resB' = knuth_equal_to_double(a, b, e)
    /\ UNCHANGED <<v, resV, resI, obj, ctor_a, m_a, seqvars>>

EqualTo ==
  \E a \in Values, b \in Values :
    /\ op = "none"
    /\ op' = "Equal_To"
    /\ x' = a
    /\ y' = b
    /\ resB' = Equal_To(a, b)
    /\ UNCHANGED <<eps, v, resV, resI, obj, ctor_a, m_a, seqvars>>

ZeroDouble ==
  \E a \in Values :
    /\ op = "none"
    /\ op' = "Zero<double>"
    /\ x' = a
    /\ resB' = Zero_double(a)
    /\ UNCHANGED <<y, eps, v, resV, resI, obj, ctor_a, m_a, seqvars>>

ZeroFloat ==
  \E a \in {NaN} \cup Floats :
    /\ op = "none"
    /\ op' = "Zero<float>"
    /\ x' = a
    /\ resB' = Zero_float(a)
    /\ UNCHANGED <<y, eps, v, resV, resI, obj, ctor_a, m_a, seqvars>>

NotZeroCall ==
  \E a \in Values :
    /\ op = "none"
    /\ op' = "NotZero"
    /\ x' = a
    /\ resB' = NotZero(a)
    /\ UNCHANGED <<y, eps, v, resV, resI, obj, ctor_a, m_a, seqvars>>

ZeroVector ==
  \E s \in Vectors :
    /\ op = "none"
    /\ op' = "Zero<vector>"
    /\ v' = s
    /\ resB' = Zero_vector(s)
    /\ UNCHANGED <<x, y, eps, resV, resI, obj, ctor_a, m_a, seqvars>>

LessOrEqualCall ==
  \E a \in Values, b \in Values :
    /\ op = "none"
    /\ op' = "LessOrEqual"
    /\ x' = a
    /\ y' = b
    /\ resB' = LessOrEqual(a, b)
    /\ UNCHANGED <<eps, v, resV, resI, obj, ctor_a, m_a, seqvars>>

GreaterOrEqualCall ==
  \E a \in Values, b \in Values :
    /\ op = "none"
    /\ op' = "GreaterOrEqual"
    /\ x' = a
    /\ y' = b
    /\ resB' = GreaterOrEqual(a, b)
    /\ UNCHANGED <<eps, v, resV, resI, obj, ctor_a, m_a, seqvars>>

NumLessCall ==
  \E a \in Values, b \in Values :
    /\ op = "none"
    /\ op' = "NumLess"
    /\ x' = a
    /\ y' = b
    /\ resB' = NumLess(a, b)
    /\ UNCHANGED <<eps, v, resV, resI, obj, ctor_a, m_a, seqvars>>

AbsMin ==
  \E a \in Values, b \in Values :
    /\ op = "none"
    /\ op' = "absMin"
    /\ x' = a
    /\ y' = b
    /\ resV' = absMin(a, b)
    /\ UNCHANGED <<eps, v, resB, resI, obj, ctor_a, m_a, seqvars>>

AbsMax ==
  \E a \in Values, b \in Values :
    /\ op = "none"
    /\ op' = "absMax"
    /\ x' = a
    /\ y' = b
    /\ resV' = absMax(a, b)
    /\ UNCHANGED <<eps, v, resB, resI, obj, ctor_a, m_a, seqvars>>

\* round on the values whose nearest integer a long holds
RoundDouble ==
  \E a \in Numbers :
    /\ op = "none"
    /\ op' = "round(double)"
    /\ x' = a
    /\ resI' = round_double(a)
    /\ UNCHANGED <<y, eps, v, resB, resV, obj, ctor_a, m_a, seqvars>>

RoundFloat ==
  \E a \in Floats :
    /\ op = "none"
    /\ op' = "round(float)"
    /\ x' = a
    /\ resI' = round_float(a)
    /\ UNCHANGED <<y, eps, v, resB, resV, obj, ctor_a, m_a, seqvars>>

Frexp10 ==
  \E a \in FrexpInputs :
    /\ op = "none"
    /\ op' = "frexp10"
    /\ x' = a
    /\ resV' = frexp10(a)[1]
    /\ resI' = frexp10(a)[2]
    /\ UNCHANGED <<y, eps, v, resB, obj, ctor_a, m_a, seqvars>>

\* the call returns and its arguments and result go out of scope
Return ==
  /\ op # "none"
  /\ op' = "none"
  /\ x' = ZeroLit
  /\ y' = ZeroLit
  /\ eps' = DefaultEps
  /\ v' = <<>>
  /\ resB' = FALSE
  /\ resV' = ZeroLit
  /\ resI' = 0
  /\ UNCHANGED <<obj, ctor_a, m_a, seqvars>>

Next ==
  \/ KnuthEqual
  \/ EqualTo
  \/ ZeroDouble
  \/ ZeroFloat
  \/ NotZeroCall
  \/ ZeroVector
  \/ LessOrEqualCall
  \/ GreaterOrEqualCall
  \/ NumLessCall
  \/ AbsMin
  \/ AbsMax
  \/ RoundDouble
  \/ RoundFloat
  \/ Frexp10
  \/ Return

Spec == Init /\ [][Next]_vars

-----------------------------------------------------------------------------
(* The Small objects *)

\* Small<TYPE> small ( a )
SmallConstruct ==
  \E a \in Values :
    /\ op = "none"
    /\ obj' = "Small<TYPE>"
    /\ ctor_a' = a
    /\ m_a' = Small_ctor(a)
    /\ UNCHANGED <<op, x, y, eps, v, resB, resV, resI, seqvars>>

\* Small< std::vector<TYPE> > small ( a ): m_cmp ( a ) builds the Small<TYPE>
SmallVectorConstruct ==
  \E a \in Values :
    /\ op = "none"
    /\ obj' = "Small<vector>"
    /\ ctor_a' = a
    /\ m_a' = Small_ctor(a)
    /\ UNCHANGED <<op, x, y, eps, v, resB, resV, resI, seqvars>>

\* small ( a )
SmallCall ==
  /\ obj = "Small<TYPE>"
  /\ \E a \in Values :
       /\ op = "none"
       /\ op' = "Small"
       /\ x' = a
       /\ resB' = Small_call(m_a, a)
       /\ UNCHANGED <<y, eps, v, resV, resI, obj, ctor_a, m_a, seqvars>>

\* small ( v ), with m_cmp the Small<TYPE> the constructor built
SmallVectorCall ==
  /\ obj = "Small<vector>"
  /\ \E s \in Vectors :
       /\ op = "none"
       /\ op' = "Small<vector>"
       /\ v' = s
       /\ resB' = Small_vector_call(m_a, s)
       /\ UNCHANGED <<x, y, eps, resV, resI, obj, ctor_a, m_a, seqvars>>

NextSmall ==
  \/ SmallConstruct
  \/ SmallVectorConstruct
  \/ SmallCall
  \/ SmallVectorCall
  \/ Return

SpecSmall == Init /\ [][NextSmall]_vars

-----------------------------------------------------------------------------
(* The sequence helpers, one loop iteration at a time *)

calls == <<op, x, y, eps, v, resB, resV, resI, obj, ctor_a, m_a>>

\* a sequence exists and nobody has called anything on it yet
InitOn(S) ==
  /\ NoCall
  /\ NoObject
  /\ arr \in S
  /\ old = arr
  /\ ys = <<>>
  /\ th = [t \in Threads |-> IdleT]
  /\ writes = [i \in 1..Len(arr) |-> 0]
  /\ oob = FALSE
  /\ dot = 0
  /\ first2 = 1

\* caller t calls scale, shift or negate on the range [first, last) of arr;
\* the vector overloads pass begin() and end()
CallInPlace(t) ==
  /\ th[t].pc = "idle"
  /\ \E o \in {"scale", "shift", "negate"} :
       \E f \in Factors(o), b \in 1..(Len(arr) + 1) :
         \E e \in b..(Len(arr) + 1) :
           th' = [th EXCEPT ![t] =
                    [op |-> o, first |-> b, last |-> e, lo |-> b, factor |-> f,
                     tmp |-> 0, pc |-> "test"]]
  /\ UNCHANGED <<calls, arr, old, ys, writes, oob, dot, first2>>

\* first != last holds: the element *first is read
Read(t) ==
  /\ th[t].pc = "test"
  /\ th[t].op # "dot_fma"
  /\ th[t].first # th[t].last
  /\ th' = [th EXCEPT ![t].tmp = arr[th[t].first], ![t].pc = "write"]
  /\ UNCHANGED <<calls, arr, old, ys, writes, oob, dot, first2>>

\* the new value is stored into *first, and ++first
Write(t) ==
  /\ th[t].pc = "write"
  /\ arr' = [arr EXCEPT ![th[t].first] = update(th[t].op, th[t].tmp, th[t].factor)]
  /\ writes' = [writes EXCEPT ![th[t].first] = @ + 1]
  /\ th' = [th EXCEPT ![t].first = @ + 1, ![t].pc = "test"]
  /\ UNCHANGED <<calls, old, ys, oob, dot, first2>>

\* first == last: the loop ends and the call returns
Exit(t) ==
  /\ th[t].pc = "test"
  /\ th[t].first = th[t].last
  /\ th' = [th EXCEPT ![t].pc = "done"]
  /\ UNCHANGED <<calls, arr, old, ys, writes, oob, dot, first2>>

\* dot_fma ( begin , end , begin2 ) on arr and a second sequence; the
\* std::array overloads pass x.begin(), x.end() and y.begin()
CallDot ==
  /\ th[1].pc = "idle"
  /\ \E b \in SeqInputs : ys' = b
  /\ th' = [th EXCEPT ![1] =
              [op |-> "dot_fma", first |-> 1, last |-> Len(arr) + 1, lo |-> 1,
               factor |-> 0, tmp |-> 0, pc |-> "test"]]
  /\ dot' = 0
  /\ first2' = 1
  /\ UNCHANGED <<calls, arr, old, writes, oob>>

\* dot = std::fma ( *begin , *begin2 , dot ), and ++begin, ++begin2; nothing
\* keeps begin2 inside the second sequence, and a read past its end yields
\* whatever is there
DotStep ==
  /\ th[1].pc = "test"
  /\ th[1].op = "dot_fma"
  /\ th[1].first # th[1].last
  /\ IF first2 <= Len(ys)
       THEN /\ dot' = fma(arr[th[1].first], ys[first2], dot)
            /\ oob' = oob
       ELSE /\ \E g \in Garbage : dot' = fma(arr[th[1].first], g, dot)
            /\ oob' = TRUE
  /\ first2' = first2 + 1
  /\ th' = [th EXCEPT ![1].first = @ + 1]
  /\ UNCHANGED <<calls, arr, old, ys, writes>>

\* one caller
InitSeq == InitOn(SeqInputs)

NextSeq ==
  \/ CallInPlace(1)
  \/ Read(1)
  \/ Write(1)
  \/ Exit(1)
  \/ CallDot
  \/ DotStep

SpecSeq == InitSeq /\ [][NextSeq]_vars

\* two callers working on one sequence without synchronisation
InitConc == InitOn({Ramp(n, 0) : n \in 0..MaxShared})

NextConc ==
  \/ \E t \in Threads :
       \/ CallInPlace(t)
       \/ Read(t)
       \/ Write(t)
       \/ Exit(t)
  \/ CallDot
  \/ DotStep

SpecConc == InitConc /\ [][NextConc]_vars

-----------------------------------------------------------------------------
(* Properties *)

\* -a
Minus(a) == IF a.nan THEN a ELSE Num(~a.neg, a.mag)

\* |a| <= |b| as numbers
AbsLeq(a, b) == ~a.nan /\ ~b.nan /\ a.mag <= b.mag

Finite2 == ~x.nan /\ ~y.nan

\* C1 (as claimed): for finite a, b and epsilon >= 0 the approximate-equality
\* predicate, knuth_equal_to_double with the given epsilon and Equal_To with
\* the default one, is true exactly when |a-b| <= epsilon * max(|a|,|b|,1),
\* and so it is true whenever a == b.
C1_EqualWithinTolerance ==
  /\ (op = "knuth_equal_to_double" /\ Finite2) =>
       /\ eps.num >= 0
       /\ resB = (Dist(x, y) <= (eps.num * Max3(x, y)) \div eps.den)
       /\ (Val(x) = Val(y) => resB)
  /\ (op = "Equal_To" /\ Finite2) =>
       /\ resB = (Dist(x, y) <= Max3(x, y) \div EpsInv)
       /\ (Val(x) = Val(y) => resB)

\* C2: for finite a, b the approximate-equality predicate gives the same
\* result with its arguments swapped.
C2_EqualSymmetric ==
  /\ (op = "Equal_To" /\ Finite2) => resB = Equal_To(y, x)
  /\ (op = "knuth_equal_to_double" /\ Finite2) =>
       resB = knuth_equal_to_double(y, x, eps)

\* C2 witness: Equal_To was applied to two different finite values, +0.0 and
\* -0.0, and found them equal.
C2_Witness ==
  /\ op = "Equal_To"
  /\ Finite2
  /\ x.neg # y.neg
  /\ resB

\* C3 (as claimed): isZero(x) is true when x == 0 exactly or x is within the
\* default epsilon of 0, so 0.0, -0.0 and a tiny non-zero value are all zero.
C3_ZeroWithinTolerance ==
  (op \in {"Zero<double>", "Zero<float>"}) =>
    /\ (Not(x) => resB)
    /\ (knuth_equal_to_double(x, ZeroLit, DefaultEps) => resB)

\* C4: isZero of a vector is true exactly when the vector is empty or every
\* element is zero by the scalar predicate, and isNonZero is the negation of
\* the scalar isZero.
C4_ZeroVector ==
  /\ (op = "Zero<vector>") =>
       resB = (Len(v) = 0 \/ \A i \in 1..Len(v) : Zero_double(v[i]))
  /\ (op = "NotZero") => resB = ~(Not(x) \/ Equal_To(x, ZeroLit))

\* C4 witness: a vector of two different elements, both zero, was found zero.
C4_Witness ==
  /\ op = "Zero<vector>"
  /\ Len(v) = 2
  /\ v[1] # v[2]
  /\ resB

\* C5: a Small built with threshold a stores |a| and accepts what one built
\* with -a accepts; a scalar x is small exactly when |x| <= |a|, and a vector
\* exactly when it is empty or every element is small.
C5_Small ==
  /\ (obj # "none") =>
       /\ m_a = fabs(ctor_a)
       /\ \A e \in Values :
            Small_call(m_a, e) = Small_call(Small_ctor(Minus(ctor_a)), e)
  /\ (op = "Small") => resB = AbsLeq(x, ctor_a)
  /\ (op = "Small<vector>") =>
       resB = (Len(v) = 0 \/ \A i \in 1..Len(v) : AbsLeq(v[i], ctor_a))

\* C5 witness: a vector Small built with a negative threshold accepted a
\* vector of two elements.
C5_Witness ==
  /\ op = "Small<vector>"
  /\ ~ctor_a.nan
  /\ ctor_a.neg
  /\ ctor_a.mag > 0
  /\ Len(v) = 2
  /\ resB

\* C6: numericallyLess(a, a) is false, and numericallyLess(a, b) and
\* numericallyLess(b, a) are never both true.
C6_NumLessAsymmetric ==
  (op = "NumLess") =>
    /\ (x = y => ~resB)
    /\ ~NumLess(x, x)
    /\ ~(resB /\ NumLess(y, x))

\* C6 witness: numericallyLess was applied to a pair and held.
C6_Witness ==
  /\ op = "NumLess"
  /\ resB
  /\ x # y

Incomparable(a, b) == ~NumLess(a, b) /\ ~NumLess(b, a)

\* the strict-weak-ordering laws of NumLess at (x, y) against every c of S
StrictWeak(S) ==
  /\ ~NumLess(x, x)
  /\ ~(NumLess(x, y) /\ NumLess(y, x))
  /\ \A c \in S : (NumLess(x, y) /\ NumLess(y, c)) => NumLess(x, c)
  /\ \A c \in S : (Incomparable(x, y) /\ Incomparable(y, c)) => Incomparable(x, c)

MinMag(a, b) == IF a.mag <= b.mag THEN a.mag ELSE b.mag
MaxMag(a, b) == IF a.mag >= b.mag THEN a.mag ELSE b.mag

\* what C9 says of a call of absMin or absMax on (x, y) with result resV
AbsMinMaxLaws ==
  /\ (op = "absMin") =>
       /\ ~resV.nan /\ ~resV.neg
       /\ resV = absMin(y, x)
       /\ resV = absMin(Minus(x), y) /\ resV = absMin(x, Minus(y))
       /\ less_equal(resV, absMax(x, y))
  /\ (op = "absMax") =>
       /\ ~resV.nan /\ ~resV.neg
       /\ resV = absMax(y, x)
       /\ resV = absMax(Minus(x), y) /\ resV = absMax(x, Minus(y))
       /\ less_equal(absMin(x, y), resV)

\* C9 (as claimed): for all v1, v2 the results of absMin and absMax are
\* non-negative, independent of argument order and of the signs, and
\* absMin <= absMax.
C9_AbsMinMaxAll == AbsMinMaxLaws

\* C9 (amended): for all non-NaN v1, v2, absMin is min(|v1|,|v2|) and absMax
\* is max(|v1|,|v2|), so both are non-negative, independent of argument order
\* and of the signs, and absMin <= absMax.
C9_AbsMinMaxNumbers ==
  Finite2 =>
    /\ (op = "absMin") => resV = Num(FALSE, MinMag(x, y))
    /\ (op = "absMax") => resV = Num(FALSE, MaxMag(x, y))
    /\ AbsMinMaxLaws

\* C9 witness: absMin of a negative value of larger magnitude and a positive
\* one.
C9_Witness ==
  /\ op = "absMin"
  /\ Finite2
  /\ x.neg /\ ~y.neg
  /\ x.mag > y.mag
  /\ y.mag > 0
  /\ resV = fabs(y)

\* the distance between x and the integer r, in units
Off(r) == IF Val(x) >= r * One THEN Val(x) - r * One ELSE r * One - Val(x)

\* C10: round(x) is the integer nearest to x, the even one at a midpoint
\* (0.5 -> 0, 1.5 -> 2, 2.5 -> 2, and so for the negative midpoints), and the
\* float and double overloads agree on the values both hold.
C10_RoundHalfEven ==
  (op \in {"round(double)", "round(float)"}) =>
    /\ Off(resI) <= Half
    /\ (Off(resI) = Half => resI % 2 = 0)
    /\ (x.mag = Half => resI = 0)
    /\ (x.mag = One + Half => resI = (IF x.neg THEN 0 - 2 ELSE 2))
    /\ (x.mag = 2 * One + Half => resI = (IF x.neg THEN 0 - 2 ELSE 2))
    /\ (op = "round(float)" => resI = round_double(x))
    /\ (op = "round(double)" /\ IsFloat(x) => resI = round_float(x))

\* C10 witness: round was applied to the negative midpoint -2.5 and gave -2.
C10_Witness ==
  /\ op = "round(double)"
  /\ x = Num(TRUE, 2 * One + Half)
  /\ resI = 0 - 2

\* how many of the given conditions hold
Count(bs) == Cardinality({i \in 1..Len(bs) : bs[i]})

\* C16: for non-NaN a, b: numericallyLess(a,b) holds exactly when
\* greaterOrEqual(a,b) does not, numericallyLess(b,a) exactly when
\* lessOrEqual(a,b) does not, one of lessOrEqual(a,b), greaterOrEqual(a,b)
\* always holds, and exactly one of numericallyLess(a,b), numericallyLess(b,a),
\* equal(a,b) holds.
C16_OrderingsConsistent ==
  (op \in {"NumLess", "LessOrEqual", "GreaterOrEqual"} /\ Finite2) =>
    /\ (op = "NumLess") => resB = ~GreaterOrEqual(x, y)
    /\ (op = "GreaterOrEqual") => resB = ~NumLess(x, y)
    /\ (op = "LessOrEqual") => resB = ~NumLess(y, x)
    /\ NumLess(y, x) = ~LessOrEqual(x, y)
    /\ LessOrEqual(x, y) \/ GreaterOrEqual(x, y)
    /\ Count(<<NumLess(x, y), NumLess(y, x), Equal_To(x, y)>>) = 1

\* C16 witness: greaterOrEqual was applied to a non-NaN pair and did not hold.
C16_Witness ==
  /\ op = "GreaterOrEqual"
  /\ Finite2
  /\ ~resB

\* 10^n for n >= 0
RECURSIVE Pow10(_)
Pow10(n) == IF n = 0 THEN 1 ELSE 10 * Pow10(n - 1)

\* C11: for finite non-zero x, frexp10(x) is (mantissa, exponent) with
\* x = mantissa * 10^exponent and 0.1 <= |mantissa| < 1, also at exact powers
\* of ten (frexp10(100.0) = (0.1, 3)); frexp10(0) is (0, 0).
C11_Frexp10 ==
  (op = "frexp10") =>
    /\ (x.mag # 0) =>
         /\ ~resV.nan
         /\ resV.neg = x.neg
         /\ One \div 10 <= resV.mag
         /\ resV.mag < One
         /\ IF resI >= 0 THEN x.mag = resV.mag * Pow10(resI)
            ELSE x.mag * Pow10(0 - resI) = resV.mag
    /\ (x.mag = Hundred /\ ~x.neg) => (resV = Num(FALSE, One \div 10) /\ resI = 3)
    /\ (x.mag = 0) => (resV = ZeroLit /\ resI = 0)

\* C11 witness: frexp10 was applied to 100.0 and gave (0.1, 3).
C11_Witness ==
  /\ op = "frexp10"
  /\ x = Num(FALSE, Hundred)
  /\ resV = Num(FALSE, One \div 10)
  /\ resI = 3


-----------------------------------------------------------------------------
(* scale, shift and negate *)

\* i lies in the range [lo, last) the caller c was given
InRange(c, i) == c.lo <= i /\ i < c.last

\* C12: scale, shift and negate work in place and elementwise: the elements of
\* the range the loop has passed hold old * f, old + f and -old, each stored
\* exactly once; the elements the loop has not reached and those outside
\* [first, last) hold their old values and were never stored; the length
\* never changes; the loop ends with first = last, so that an empty range
\* changes nothing; scale([1,2,3], 2) = [2,4,6], shift([1,2,3], 1) = [2,3,4],
\* negate([1,-2,3]) = [-1,2,-3].
C12_InPlaceElementwise ==
  LET c == th[1]
  IN  c.op \in {"scale", "shift", "negate"} =>
        /\ Len(arr) = Len(old)
        /\ \A i \in 1..Len(old) :
             IF InRange(c, i) /\ i < c.first
               THEN /\ writes[i] = 1
                    /\ c.op = "scale" => arr[i] = old[i] * c.factor
                    /\ c.op = "shift" => arr[i] = old[i] + c.factor
                    /\ c.op = "negate" => arr[i] + old[i] = 0
               ELSE /\ writes[i] = 0
                    /\ arr[i] = old[i]
        /\ c.pc = "done" =>
             /\ c.first = c.last
             /\ c.lo = c.last => arr = old
             /\ (old = <<1, 2, 3>> /\ c.lo = 1 /\ c.last = 4) =>
                  /\ (c.op = "scale" /\ c.factor = 2) => arr = <<2, 4, 6>>
                  /\ (c.op = "shift" /\ c.factor = 1) => arr = <<2, 3, 4>>
             /\ (old = <<1, 0 - 2, 3>> /\ c.lo = 1 /\ c.last = 4 /\ c.op = "negate") =>
                  arr = <<0 - 1, 2, 0 - 3>>

\* scale by 2 of the middle element alone of <<1, 2, 3>> has returned
C12_Witness ==
  /\ th[1].op = "scale"
  /\ th[1].pc = "done"
  /\ th[1].factor = 2
  /\ th[1].lo = 2
  /\ th[1].last = 3
  /\ old = <<1, 2, 3>>
  /\ arr = <<1, 4, 3>>

-----------------------------------------------------------------------------
(* dot_fma *)

\* x[1] * y[1] + ... + x[n] * y[n], summed from 0 and from the left
RECURSIVE DotSum(_, _, _)
DotSum(a, b, n) == IF n = 0 THEN 0 ELSE DotSum(a, b, n - 1) + a[n] * b[n]

\* C13: for sequences of equal length dot_fma returns the sum of the
\* products x[i] * y[i], accumulated from 0 and from the left; it returns 0
\* for empty sequences, 32 for [1,2,3] and [4,5,6], and the same with the
\* two sequences swapped.
C13_DotProduct ==
  LET c == th[1]
  IN  (c.op = "dot_fma" /\ Len(ys) = Len(arr)) =>
        /\ first2 = c.first
        /\ dot = DotSum(arr, ys, c.first - 1)
        /\ c.pc = "done" =>
             /\ dot = DotSum(arr, ys, Len(arr))
             /\ dot = DotSum(ys, arr, Len(ys))
             /\ arr = <<>> => dot = 0
             /\ (arr = <<1, 2, 3>> /\ ys = <<4, 5, 6>>) => dot = 32
             /\ (arr = <<4, 5, 6>> /\ ys = <<1, 2, 3>>) => dot = 32

\* dot_fma of [1,2,3] and [4,5,6] has returned 32
C13_Witness ==
  /\ th[1].op = "dot_fma"
  /\ th[1].pc = "done"
  /\ arr = <<1, 2, 3>>
  /\ ys = <<4, 5, 6>>
  /\ dot = 32

\* C15: whatever the lengths of the two sequences, dot_fma never reads the
\* second sequence at or beyond its end: it fails before the loop or stops at
\* the shorter length.
C15_NoReadPastEnd ==
  th[1].op = "dot_fma" => (~oob /\ first2 <= Len(ys) + 1)

-----------------------------------------------------------------------------
(* Concurrent callers *)

\* the sequence s after the call of c has run alone on it
After(s, c) ==
  [i \in 1..Len(s) |->
     IF ~InRange(c, i) THEN s[i]
     ELSE IF c.op = "scale" THEN s[i] * c.factor
     ELSE IF c.op = "shift" THEN s[i] + c.factor
     ELSE IF c.op = "negate" THEN 0 - s[i]
     ELSE s[i]]

\* what dot_fma of caller c returns when it runs alone on s
Returns(s, c) ==
  (c.op = "dot_fma" /\ Len(ys) = Len(s)) => dot = DotSum(s, ys, Len(s))

\* the outcome is that of the two calls run one after the other, in one of
\* the two orders
Sequential ==
  \/ /\ arr = After(After(old, th[1]), th[2])
     /\ Returns(old, th[1])
  \/ /\ arr = After(After(old, th[2]), th[1])
     /\ Returns(After(old, th[2]), th[1])

BothDone == \A t \in Threads : th[t].pc = "done"

\* the two calls have no element in common
Disjoint == \A i \in 1..Len(old) : ~(InRange(th[1], i) /\ InRange(th[2], i))

\* C14 as stated: operations run concurrently on the same sequence without
\* synchronisation, scale, shift and negate included, end as some sequential
\* order of them would.
C14_AnyInterleavingSequential == BothDone => Sequential

\* C14, amended: concurrent calls whose ranges have no element in common end
\* as a sequential order of them would.
C14_DisjointSequential == (BothDone /\ Disjoint) => Sequential

\* two concurrent calls on the two halves of <<1, 2>> have both returned,
\* and each has changed its element
C14_Witness ==
  /\ BothDone
  /\ Disjoint
  /\ \A t \in Threads :
       /\ th[t].op \in {"scale", "shift", "negate"}
       /\ th[t].lo < th[t].last
  /\ old = <<1, 2>>
  /\ arr[1] # 1
  /\ arr[2] # 2

=============================================================================
